---- MODULE Spec2Model ----
(***************************************************************************)
(* Model of offensive_comment_detector.py: the analysis pipeline           *)
(* load_comments -> process_comments (pre_filter_comments,                 *)
(* analyze_comment_with_ai) -> export_report -> generate_report_json ->    *)
(* save_report_json -> plot_offense_distribution, as driven by main.       *)
(*                                                                         *)
(* Python values.  A dict is a record with one field per key the program   *)
(* reads or writes; a key that is not in the dict holds Absent (SevAbsent  *)
(* for the integer-valued key 'severity'), a key bound to None holds None  *)
(* (SevNone).  Booleans are the strings "true" and "false" so that one     *)
(* field can hold a bool, a str or None.  A list element is an object      *)
(* reference: generate_report_json works on positions of analyzed_comments *)
(* and compares the dicts they point to by value where the code does.      *)
(***************************************************************************)
EXTENDS Integers, Sequences, FiniteSets, TLC

VARIABLES
    pc,                 \* the statement main (or the function under check) is at
    args,               \* the parsed command line (lines 251-256)
    file,               \* the input file as load_comments finds it
    comments,           \* main's "comments"
    flagged,            \* positions pre_filter_comments flagged in this run
    i,                  \* position of the loop of process_comments
    analyzed_comments,  \* main's "analyzed_comments"
    requests,           \* per input comment, the API calls made for it
    answers,            \* per input comment, what the API call did
    printed,            \* the kinds of message printed so far
    written,            \* the sinks fully written so far
    report,             \* main's "report_data"
    raised              \* the exception that ended main, "" when none

vars == <<pc, args, file, comments, flagged, i, analyzed_comments,
          requests, answers, printed, written, report, raised>>

---------------------------------------------------------------------------
(* Bounds of the model *)

\* The longest list of comments an input file holds.
MaxComments == 2

\* The longest collection generate_report_json is applied to on its own.
MaxAnalyzed == 6

---------------------------------------------------------------------------
(* Python values *)

None == "None"

Absent == "<absent>"

True == "true"

False == "false"

SevNone == -1

SevAbsent == -2

\* bool(v) for the values a dict field can hold
Truthy(v) == v \notin {None, Absent, False, ""}

\* d.get(key) / d.get(key, default) on a string-valued field
Get(v, default) == IF v = Absent THEN default ELSE v

\* d.get('severity') / d.get('severity', default)
GetSev(v, default) == IF v = SevAbsent THEN default ELSE v

Range(s) == {s[k] : k \in DOMAIN s}

SeqsUpTo(S, n) == UNION {[1..k -> S] : k \in 0..n}

---------------------------------------------------------------------------
(* Comments as loaded from the input file *)

Texts == {"nice video", "damn spam"}

\* profanity.contains_profanity(text): a fixed word list decides
contains_profanity(text) == text = "damn spam"

\* A row with the three Comment columns only.
FreshComment(text) ==
    [comment_id |-> 1, comment_text |-> text, is_offensive |-> Absent,
     offense_type |-> Absent, explanation |-> Absent, severity |-> SevAbsent]

\* A row of a previously exported analyzed_comments.csv read back by
\* csv.DictReader: every cell is a str (the severity cell is overwritten
\* before anything reads it, so its str-ness is not modelled).
RefedComment(text) ==
    [comment_id |-> 1, comment_text |-> text, is_offensive |-> "True",
     offense_type |-> "profanity", explanation |-> "Flagged by better_profanity",
     severity |-> 1]

RawComments == {FreshComment(t) : t \in Texts} \cup {RefedComment("nice video")}

---------------------------------------------------------------------------
(* The classification API as seen by analyze_comment_with_ai *)

Messages == {"Connection error.", "Rate limit reached"}

EmptyObject ==
    [is_offensive |-> Absent, offense_type |-> Absent,
     explanation |-> Absent, severity |-> SevAbsent]

Obj(o, t, e, s) ==
    [is_offensive |-> o, offense_type |-> t, explanation |-> e, severity |-> s]

\* JSON objects the model may answer with: well-formed answers, an offensive
\* answer without severity, a non-offensive answer that still names a type
\* and a severity outside 1..5, and an object with none of the four keys.
ApiObjects ==
    { Obj(True, "toxicity", "insulting", 4),
      Obj(True, "harassment", "threat", SevNone),
      Obj(False, None, None, SevNone),
      Obj(False, "toxicity", None, 9),
      EmptyObject }

\* response.choices[0].message.content
Content(form, obj) == [form |-> form, obj |-> obj]

ApiContents ==
    {Content("object", o) : o \in ApiObjects}
      \cup {Content(f, EmptyObject) : f \in {"not_json", "array", "none"}}

Outcome(kind, message, content) ==
    [kind |-> kind, message |-> message, content |-> content]

\* What client.chat.completions.create does on one call: raise, return a
\* response without choices, or return a response with a first choice.
ApiOutcomes ==
    {Outcome("raise", m, Content("none", EmptyObject)) : m \in Messages}
      \cup {Outcome("no_choices", "", Content("none", EmptyObject))}
      \cup {Outcome("choice", "", c) : c \in ApiContents}

\* json.loads(content): the exception it raises, or "" and the value
json_loads_raises(content) ==
    CASE content.form = "not_json" -> "JSONDecodeError"
      [] content.form = "none" -> "TypeError"
      [] OTHER -> ""

\* analysis.get(...) on the loaded value: only a dict has .get
analysis_get_raises(content) ==
    IF content.form = "array" THEN "AttributeError" ELSE ""

ErrorText(exc) ==
    CASE exc = "TypeError" ->
           "the JSON object must be str, bytes or bytearray, not NoneType"
      [] exc = "AttributeError" -> "'list' object has no attribute 'get'"
      [] OTHER -> exc

---------------------------------------------------------------------------
(* analyze_comment_with_ai *)

\* The test of lines 82: the comment already carries the pre-filter's marks.
SkipsClassifier(comment) ==
    /\ Truthy(Get(comment.is_offensive, None))
    /\ Get(comment.offense_type, None) = "profanity"

\* The handler of "except Exception as e" (lines 132-137).
ApiErrorMutant(comment, message) ==
    [comment EXCEPT !.is_offensive = True,
                    !.offense_type = "api_error",
                    !.explanation = "Error during AI analysis",
                    !.severity = 3]

ApiError(comment, message) ==
    [comment EXCEPT !.is_offensive = True,
                    !.offense_type = "api_error",
                    !.explanation = "Error during AI analysis: " \o message,
                    !.severity = 4]

\* The handler of "except json.JSONDecodeError" (lines 121-126).
DecodeError(comment) ==
    [comment EXCEPT !.is_offensive = True,
                    !.offense_type = "error",
                    !.explanation = "Error decoding AI analysis response.",
                    !.severity = 3]

\* The branch taken when response.choices is empty (lines 127-131).
NoResponse(comment) ==
    [comment EXCEPT !.is_offensive = False,
                    !.offense_type = None,
                    !.explanation = "No response from AI model.",
                    !.severity = SevNone]

\* Lines 117-120: the four fields copied from the parsed object.
Parsed(comment, obj) ==
    [comment EXCEPT !.is_offensive = Get(obj.is_offensive, False),
                    !.offense_type = Get(obj.offense_type, None),
                    !.explanation = Get(obj.explanation, None),
                    !.severity = GetSev(obj.severity, SevNone)]

\* The exception that leaves the inner try of lines 115-126 for the outer
\* handler, "" when none does.
EscapesInnerTry(content) ==
    IF json_loads_raises(content) \notin {"", "JSONDecodeError"}
    THEN json_loads_raises(content)
    ELSE IF json_loads_raises(content) = "" THEN analysis_get_raises(content)
    ELSE ""

analyze_comment_with_ai(comment, outcome) ==
    IF SkipsClassifier(comment) THEN [comment EXCEPT !.severity = 1]
    ELSE IF outcome.kind = "raise" THEN ApiError(comment, outcome.message)
    ELSE IF outcome.kind = "no_choices" THEN NoResponse(comment)
    ELSE IF json_loads_raises(outcome.content) = "JSONDecodeError"
         THEN DecodeError(comment)
    ELSE IF EscapesInnerTry(outcome.content) # ""
         THEN ApiError(comment, ErrorText(EscapesInnerTry(outcome.content)))
    ELSE Parsed(comment, outcome.content.obj)

\* What the call prints (lines 122 and 133).
analyze_prints(comment, outcome) ==
    IF SkipsClassifier(comment) \/ outcome.kind = "no_choices" THEN {}
    ELSE IF outcome.kind = "raise" THEN {"Error during OpenAI API call"}
    ELSE IF json_loads_raises(outcome.content) = "JSONDecodeError"
         THEN {"Error decoding JSON response"}
    ELSE IF EscapesInnerTry(outcome.content) # ""
         THEN {"Error during OpenAI API call"}
    ELSE {}

---------------------------------------------------------------------------
(* pre_filter_comments and process_comments *)

PyList(s) == [type |-> "list", items |-> s, n |-> Len(s)]

Flag(comment) ==
    [comment EXCEPT !.is_offensive = True,
                    !.offense_type = "profanity",
                    !.explanation = "Flagged by better_profanity"]

pre_filter_comments(items) ==
    [k \in DOMAIN items |->
        IF contains_profanity(Get(items[k].comment_text, ""))
        THEN Flag(items[k]) ELSE items[k]]

\* process_comments up to the loop: the optional pre-filter (lines 143-145).
ProcessStart ==
    /\ pc = "process_comments"
    /\ IF args.filter
       THEN /\ comments' = PyList(pre_filter_comments(comments.items))
            /\ flagged' = {k \in DOMAIN comments.items :
                             contains_profanity(Get(comments.items[k].comment_text, ""))}
            /\ printed' = printed \cup {"Pre-filtered"}
       ELSE UNCHANGED <<comments, flagged, printed>>
    /\ analyzed_comments' = <<>>
    /\ requests' = <<>>
    /\ answers' = <<>>
    /\ i' = 1
    /\ pc' = "analyze"
    /\ UNCHANGED <<args, file, written, report, raised>>

\* The entry of "answers" for a comment no call was made for.
NoCall == Outcome("no_call", "", Content("none", EmptyObject))

\* One iteration of the loop of lines 146-147 on a comment that reaches the
\* API: one call of client.chat.completions.create, answered by the
\* environment.
AnalyzeWithApi ==
    /\ pc = "analyze"
    /\ i <= Len(comments.items)
    /\ ~SkipsClassifier(comments.items[i])
    /\ \E outcome \in ApiOutcomes :
         /\ analyzed_comments' =
              Append(analyzed_comments,
                     analyze_comment_with_ai(comments.items[i], outcome))
         /\ printed' = printed \cup analyze_prints(comments.items[i], outcome)
         /\ answers' = Append(answers, outcome)
    /\ requests' = Append(requests, 1)
    /\ i' = i + 1
    /\ UNCHANGED <<pc, args, file, comments, flagged, written, report, raised>>

\* One iteration on a comment that returns at line 84 without a call.
AnalyzeSkipped ==
    /\ pc = "analyze"
    /\ i <= Len(comments.items)
    /\ SkipsClassifier(comments.items[i])
    /\ analyzed_comments' =
         Append(analyzed_comments,
                analyze_comment_with_ai(comments.items[i], NoCall))
    /\ requests' = Append(requests, 0)
    /\ answers' = Append(answers, NoCall)
    /\ i' = i + 1
    /\ UNCHANGED <<pc, args, file, comments, flagged, printed, written,
                   report, raised>>

\* Line 148: the loop is over, process_comments returns to main (line 262).
ProcessReturn ==
    /\ pc = "analyze"
    /\ i > Len(comments.items)
    /\ pc' = "export_report"
    /\ UNCHANGED <<args, file, comments, flagged, i, analyzed_comments,
                   requests, answers, printed, written, report, raised>>

---------------------------------------------------------------------------
(* generate_report_json *)

\* The length of the "top" list: the literal 5 of lines 164, 174 and 176.
TopN == 5

\* Line 152: the positions of the comments whose is_offensive is truthy, in
\* input order.
RECURSIVE OffensiveFrom(_, _)
OffensiveFrom(analyzed, k) ==
    IF k > Len(analyzed) THEN <<>>
    ELSE IF Truthy(Get(analyzed[k].is_offensive, None))
         THEN <<k>> \o OffensiveFrom(analyzed, k + 1)
         ELSE OffensiveFrom(analyzed, k + 1)

Offensive(analyzed) == OffensiveFrom(analyzed, 1)

\* Line 157: the sort key, x.get('severity', 0).
SortKey(analyzed, k) == GetSev(analyzed[k].severity, 0)

\* sorted() compares keys with "<"; with two or more elements every element
\* takes part in a comparison, and a comparison with None raises TypeError.
SortRaises(analyzed, offensive) ==
    /\ Len(offensive) >= 2
    /\ \E j \in DOMAIN offensive : SortKey(analyzed, offensive[j]) = SevNone

\* The place of a new element in a list sorted by key descending, behind
\* every element whose key is not smaller (the sort is stable).
RECURSIVE InsertDesc(_, _, _)
InsertDesc(analyzed, sorted, k) ==
    IF sorted = <<>> THEN <<k>>
    ELSE IF SortKey(analyzed, Head(sorted)) >= SortKey(analyzed, k)
         THEN <<Head(sorted)>> \o InsertDesc(analyzed, Tail(sorted), k)
         ELSE <<k>> \o sorted

RECURSIVE SortedDesc(_, _)
SortedDesc(analyzed, offensive) ==
    IF offensive = <<>> THEN <<>>
    ELSE InsertDesc(analyzed,
                    SortedDesc(analyzed, SubSeq(offensive, 1, Len(offensive) - 1)),
                    offensive[Len(offensive)])

OffenseType(analyzed, k) == Get(analyzed[k].offense_type, None)

\* "comment not in top_5_varied" (line 176): list membership compares the
\* dicts by value.
NotInTop(analyzed, top, k) ==
    \A j \in DOMAIN top : analyzed[top[j]] # analyzed[k]

\* The loop of lines 162-171 from position j of sorted_offensive on.
RECURSIVE FirstPass(_, _, _, _, _)
FirstPass(analyzed, sorted, j, top, seen) ==
    IF j > Len(sorted) THEN top
    ELSE IF Len(top) < TopN
         THEN IF OffenseType(analyzed, sorted[j]) \notin seen
              THEN FirstPass(analyzed, sorted, j + 1, Append(top, sorted[j]),
                             seen \cup {OffenseType(analyzed, sorted[j])})
              ELSE IF top = <<>>
                   THEN FirstPass(analyzed, sorted, j + 1,
                                  Append(top, sorted[j]), seen)
                   ELSE FirstPass(analyzed, sorted, j + 1, top, seen)
         ELSE top

\* The loop of lines 175-177 from position j of sorted_offensive on.
RECURSIVE Backfill(_, _, _, _)
Backfill(analyzed, sorted, j, top) ==
    IF j > Len(sorted) THEN top
    ELSE IF NotInTop(analyzed, top, sorted[j]) /\ Len(top) < TopN
         THEN Backfill(analyzed, sorted, j + 1, Append(top, sorted[j]))
         ELSE Backfill(analyzed, sorted, j + 1, top)

\* Lines 159-177.
Top5Varied(analyzed, sorted) ==
    LET first == FirstPass(analyzed, sorted, 1, <<>>, {})
    IN  IF Len(first) < TopN THEN Backfill(analyzed, sorted, 1, first)
        ELSE first

\* Line 182: Counter over the truthy offense types of the offensive comments.
Breakdown(analyzed, offensive) ==
    LET types == {Get(analyzed[offensive[j]].offense_type, None) :
                     j \in DOMAIN offensive}
    IN  [t \in {u \in types : Truthy(u)} |->
            Cardinality({j \in DOMAIN offensive :
                            Get(analyzed[offensive[j]].offense_type, None) = t})]

NoReport ==
    [built |-> FALSE, total_comments |-> 0, num_offensive_comments |-> 0,
     offense_type_breakdown |-> <<>>, top_5_varied |-> <<>>]

\* The value generate_report_json returns (top_5_varied holds positions of
\* analyzed_comments, the references the list holds), when it returns.
generate_report_json(analyzed) ==
    [built |-> TRUE,
     total_comments |-> Len(analyzed),
     num_offensive_comments |-> Len(Offensive(analyzed)),
     offense_type_breakdown |-> Breakdown(analyzed, Offensive(analyzed)),
     top_5_varied |-> Top5Varied(analyzed,
                                 SortedDesc(analyzed, Offensive(analyzed)))]

\* The exception generate_report_json raises instead, "" when it returns.
generate_report_raises(analyzed) ==
    IF SortRaises(analyzed, Offensive(analyzed)) THEN "TypeError" ELSE ""

\* Line 263 of main.
GenerateReport ==
    /\ pc = "generate_report_json"
    /\ IF generate_report_raises(analyzed_comments) # ""
       THEN /\ raised' = generate_report_raises(analyzed_comments)
            /\ pc' = "crashed"
            /\ UNCHANGED report
       ELSE /\ report' = generate_report_json(analyzed_comments)
            /\ pc' = IF args.report_json THEN "save_report_json"
                     ELSE IF args.plot THEN "plot_offense_distribution"
                     ELSE "done"
            /\ UNCHANGED raised
    /\ UNCHANGED <<args, file, comments, flagged, i, analyzed_comments,
                   requests, answers, printed, written>>

---------------------------------------------------------------------------
(* load_comments *)

\* A value json.load can hand back in place of the list of comment dicts:
\* an int, or a list of numbers (n is the int, or the length of the list).
PyInt(n) == [type |-> "int", items |-> <<>>, n |-> n]

ScalarList == [type |-> "scalar_list", items |-> <<>>, n |-> 2]

\* bool(v) and the type tests of lines 36-38 and 56-59
PyTruthy(v) == v.n # 0

IsRecordList(v) == v.type = "list"

LoadableLists == {PyList(s) : s \in SeqsUpTo(RawComments, MaxComments)}

JsonValues == LoadableLists \cup {ScalarList, PyInt(5), PyInt(0)}

\* ext: what the path ends with.  form: "rows" (a decodable CSV), "list"
\* (JSON whose top level is value), "dict_comments" (a JSON object whose
\* 'comments' key holds value), "dict_other" (a JSON object without that
\* key), "scalar" (JSON whose top level is the int value), or "garbage"
\* (bytes the reader rejects).
File(ext, exists, form, value) ==
    [ext |-> ext, exists |-> exists, form |-> form, value |-> value]

Files ==
    {File("csv", TRUE, "rows", v) : v \in LoadableLists}
      \cup {File("json", TRUE, "list", v) : v \in JsonValues \ {PyInt(5), PyInt(0)}}
      \cup {File("json", TRUE, "scalar", v) : v \in {PyInt(5)}}
      \cup {File("json", TRUE, "dict_comments", v) : v \in JsonValues}
      \cup {File("json", TRUE, "dict_other", PyList(<<>>))}
      \cup {File(e, TRUE, "garbage", PyList(<<>>)) : e \in {"csv", "json", "txt"}}
      \cup {File(e, FALSE, "garbage", PyList(<<>>)) : e \in {"csv", "json"}}

\* The exception raised inside the try of lines 27-43, "" when none is.
load_raises(f) ==
    IF f.ext \notin {"csv", "json"} THEN "ValueError"
    ELSE IF ~f.exists THEN "FileNotFoundError"
    ELSE IF f.form = "garbage"
         THEN (IF f.ext = "csv" THEN "UnicodeDecodeError" ELSE "JSONDecodeError")
    ELSE IF f.ext = "json" /\ f.form \in {"dict_other", "scalar"} THEN "ValueError"
    ELSE ""

\* The value load_comments returns.
load_comments(f) ==
    IF load_raises(f) # "" THEN PyList(<<>>) ELSE f.value

load_prints(f) ==
    IF load_raises(f) = "" THEN {}
    ELSE IF load_raises(f) = "FileNotFoundError" THEN {"Error: File not found"}
    ELSE {"Error loading file"}

\* Lines 258-259 and 268-269 of main.
LoadComments ==
    /\ pc = "load_comments"
    /\ comments' = load_comments(file)
    /\ IF PyTruthy(load_comments(file))
       THEN /\ pc' = "display_summary"
            /\ printed' = printed \cup load_prints(file)
       ELSE /\ pc' = "done"
            /\ printed' = printed \cup load_prints(file)
                            \cup {"No comments loaded. Exiting."}
    /\ UNCHANGED <<args, file, flagged, i, analyzed_comments, requests,
                   answers, written, report, raised>>

\* display_summary (lines 52-61): len() of an int raises TypeError (line 54),
\* .get of a list element that is no dict raises AttributeError (line 59).
display_raises(v) ==
    CASE v.type = "int" -> "TypeError"
      [] v.type = "scalar_list" -> "AttributeError"
      [] OTHER -> ""

\* What it prints before it returns or raises (line 55).
display_prints(v) ==
    IF v.type = "int" THEN {} ELSE {"Total number of comments loaded"}

\* Line 260 of main.
DisplaySummary ==
    /\ pc = "display_summary"
    /\ printed' = printed \cup display_prints(comments)
    /\ IF display_raises(comments) # ""
       THEN /\ raised' = display_raises(comments)
            /\ pc' = "crashed"
       ELSE /\ pc' = "process_comments"
            /\ UNCHANGED raised
    /\ UNCHANGED <<args, file, comments, flagged, i, analyzed_comments,
                   requests, answers, written, report>>

---------------------------------------------------------------------------
(* export_report, save_report_json, plot_offense_distribution *)

\* Lines 196-199: every missing field of a comment is set to None.
FillMissing(comment) ==
    [comment_id |-> comment.comment_id,
     comment_text |-> Get(comment.comment_text, None),
     is_offensive |-> Get(comment.is_offensive, None),
     offense_type |-> Get(comment.offense_type, None),
     explanation |-> Get(comment.explanation, None),
     severity |-> GetSev(comment.severity, SevNone)]

\* What the file system does to one exporter's open() and writes.
IoResults == {"ok", "open_fails", "write_fails"}

\* The exception raised inside the try of export_report (lines 189-207), ""
\* when none is.
export_raises(ext, io) ==
    IF ext \in {"csv", "json"} /\ io # "ok" THEN "OSError" ELSE ""

\* Whether the "except Exception" of line 208 catches it.
export_catchesMutant(exc) == FALSE

export_catches(exc) == exc # ""

\* Line 262 of main: export_report(analyzed_comments, output_file).
ExportReport ==
    /\ pc = "export_report"
    /\ \E io \in IoResults :
         /\ (args.output_ext \notin {"csv", "json"}) => io = "ok"
         /\ analyzed_comments' =
              IF args.output_ext = "csv" /\ io # "open_fails"
              THEN [k \in DOMAIN analyzed_comments |->
                       FillMissing(analyzed_comments[k])]
              ELSE analyzed_comments
         /\ IF export_raises(args.output_ext, io) = ""
            THEN IF args.output_ext \in {"csv", "json"}
                 THEN /\ written' = written \cup {"output_file"}
                      /\ printed' = printed \cup {"Analyzed data exported"}
                      /\ pc' = "generate_report_json"
                      /\ UNCHANGED raised
                 ELSE /\ printed' = printed \cup {"Unsupported output file format"}
                      /\ pc' = "generate_report_json"
                      /\ UNCHANGED <<written, raised>>
            ELSE IF export_catches(export_raises(args.output_ext, io))
                 THEN /\ printed' = printed \cup {"Error exporting data"}
                      /\ pc' = "generate_report_json"
                      /\ UNCHANGED <<written, raised>>
                 ELSE /\ raised' = export_raises(args.output_ext, io)
                      /\ pc' = "crashed"
                      /\ UNCHANGED <<written, printed>>
    /\ UNCHANGED <<args, file, comments, flagged, i, requests, answers, report>>

\* Whether the "except Exception" of line 217 catches a failed write.
save_catches(exc) == exc # ""

\* Lines 264-265 of main: save_report_json(report_data, ...).
SaveReportJson ==
    /\ pc = "save_report_json"
    /\ \E io \in IoResults :
         IF io = "ok"
         THEN /\ written' = written \cup {"report_json"}
              /\ printed' = printed \cup {"Offensive comment report saved"}
              /\ pc' = IF args.plot THEN "plot_offense_distribution" ELSE "done"
              /\ UNCHANGED raised
         ELSE IF save_catches("OSError")
              THEN /\ printed' = printed \cup {"Error saving JSON report"}
                   /\ pc' = IF args.plot THEN "plot_offense_distribution"
                            ELSE "done"
                   /\ UNCHANGED <<written, raised>>
              ELSE /\ raised' = "OSError"
                   /\ pc' = "crashed"
                   /\ UNCHANGED <<written, printed>>
    /\ UNCHANGED <<args, file, comments, flagged, i, analyzed_comments,
                   requests, answers, report>>

\* Lines 266-267 of main: plot_offense_distribution (lines 220-239) shows the
\* chart or says there is nothing to plot.
PlotOffenseDistribution ==
    /\ pc = "plot_offense_distribution"
    /\ printed' = printed \cup
         (IF \E k \in DOMAIN analyzed_comments :
                /\ Truthy(Get(analyzed_comments[k].is_offensive, None))
                /\ Truthy(Get(analyzed_comments[k].offense_type, None))
          THEN {}
          ELSE {"No offensive comments found to plot distribution."})
    /\ pc' = "done"
    /\ UNCHANGED <<args, file, comments, flagged, i, analyzed_comments,
                   requests, answers, written, report, raised>>

---------------------------------------------------------------------------
(* Specifications *)

Args(filter, report_json, plot, output_ext) ==
    [filter |-> filter, report_json |-> report_json, plot |-> plot,
     output_ext |-> output_ext]

Blank ==
    /\ flagged = {}
    /\ i = 1
    /\ analyzed_comments = <<>>
    /\ requests = <<>>
    /\ answers = <<>>
    /\ printed = {}
    /\ written = {}
    /\ report = NoReport
    /\ raised = ""

\* main, from line 258 on, for every input file and command line.
Init ==
    /\ pc = "load_comments"
    /\ args \in {Args(f, r, p, e) : f \in BOOLEAN, r \in BOOLEAN, p \in BOOLEAN,
                                   e \in {"csv", "json", "txt"}}
    /\ file \in Files
    /\ comments = PyList(<<>>)
    /\ Blank

Next ==
    \/ LoadComments
    \/ DisplaySummary
    \/ ProcessStart
    \/ AnalyzeWithApi
    \/ AnalyzeSkipped
    \/ ProcessReturn
    \/ ExportReport
    \/ GenerateReport
    \/ SaveReportJson
    \/ PlotOffenseDistribution

Spec == Init /\ [][Next]_vars

\* generate_report_json on every collection of analyzed comments.
AnalyzedComment(id, o, t, s) ==
    [comment_id |-> id, comment_text |-> "text", is_offensive |-> o,
     offense_type |-> t, explanation |-> None, severity |-> s]

AnalyzedPool ==
    { AnalyzedComment(1, True, "toxicity", 5),
      AnalyzedComment(2, True, "toxicity", 3),
      AnalyzedComment(3, True, "harassment", 3),
      AnalyzedComment(4, True, "hate speech", 1),
      AnalyzedComment(5, True, "api_error", 4),
      AnalyzedComment(6, True, None, SevAbsent),
      AnalyzedComment(7, True, "harassment", SevNone),
      AnalyzedComment(8, False, None, SevNone) }

InitReport ==
    /\ pc = "generate_report_json"
    /\ args = Args(FALSE, FALSE, FALSE, "csv")
    /\ file = File("csv", TRUE, "rows", PyList(<<>>))
    /\ comments = PyList(<<>>)
    /\ flagged = {}
    /\ i = 1
    /\ analyzed_comments \in SeqsUpTo(AnalyzedPool, MaxAnalyzed)
    /\ requests = <<>>
    /\ answers = <<>>
    /\ printed = {}
    /\ written = {}
    /\ report = NoReport
    /\ raised = ""

NextReport == GenerateReport

SpecReport == InitReport /\ [][NextReport]_vars

---------------------------------------------------------------------------
(* Properties *)

Min(a, b) == IF a < b THEN a ELSE b

Take(s, n) == SubSeq(s, 1, Min(n, Len(s)))

\* Whether string part occurs in string whole.
Contains(whole, part) ==
    \E a \in 1..(Len(whole) - Len(part) + 1) :
        SubSeq(whole, a, a + Len(part) - 1) = part

\* The subsequence of s of the elements that satisfy Keep, as positions of s.
RECURSIVE Pick(_, _, _)
Pick(s, keep, j) ==
    IF j > Len(s) THEN <<>>
    ELSE IF j \in keep THEN <<s[j]>> \o Pick(s, keep, j + 1)
         ELSE Pick(s, keep, j + 1)

\* The two passes as the claim states them, on comments as input objects:
\* the first comment of each offense_type in sorted order (at most TopN of
\* them), then the comments not selected so far, in sorted order.
ClaimedFirstPass(analyzed, sorted) ==
    Take(Pick(sorted,
              {j \in DOMAIN sorted :
                  \A h \in 1..(j - 1) :
                     OffenseType(analyzed, sorted[h]) # OffenseType(analyzed, sorted[j])},
              1),
         TopN)

ClaimedTop(analyzed, sorted) ==
    LET first == ClaimedFirstPass(analyzed, sorted)
        rest == Pick(sorted, {j \in DOMAIN sorted : sorted[j] \notin Range(first)}, 1)
    IN  Take(first \o rest, TopN)

\* C1: whenever generate_report_json returns, its top list is the list the
\* two passes give: in sorted order the first comment of each offense_type not
\* yet seen, and, only if fewer than 5 were taken, after them the next most
\* severe comments not already selected.
C1_TopIsTwoPassSelection ==
    report.built =>
        report.top_5_varied =
            ClaimedTop(analyzed_comments,
                       SortedDesc(analyzed_comments, Offensive(analyzed_comments)))

\* The last sentence of C1 alone: in the returned list no comment of an
\* already represented offense_type stands before the first comment of
\* another offense_type, as long as fewer than 5 comments stand before it.
C1_DiversityBeforeDepth ==
    report.built =>
        LET top == report.top_5_varied
            type(j) == OffenseType(analyzed_comments, top[j])
            repeats(j) == \E h \in 1..(j - 1) : type(h) = type(j)
        IN  \A j \in DOMAIN top : \A h \in 1..(j - 1) : repeats(h) => repeats(j)

\* C9: the returned top list has exactly min(5, number of offensive comments)
\* entries and holds no input comment twice.
C9_TopHasMinFiveOrAll ==
    report.built =>
        /\ Len(report.top_5_varied) =
              Min(TopN, Len(Offensive(analyzed_comments)))
        /\ \A j, h \in DOMAIN report.top_5_varied :
              j # h => report.top_5_varied[j] # report.top_5_varied[h]

\* The order C10 states: severity descending with a missing severity (absent
\* or None) counted as 0, ties in input order.
SeverityOrZero(analyzed, k) ==
    IF analyzed[k].severity \in {SevAbsent, SevNone} THEN 0
    ELSE analyzed[k].severity

RECURSIVE InsertByClaim(_, _, _)
InsertByClaim(analyzed, sorted, k) ==
    IF sorted = <<>> THEN <<k>>
    ELSE IF SeverityOrZero(analyzed, Head(sorted)) >= SeverityOrZero(analyzed, k)
         THEN <<Head(sorted)>> \o InsertByClaim(analyzed, Tail(sorted), k)
         ELSE <<k>> \o sorted

RECURSIVE SortedByClaim(_, _)
SortedByClaim(analyzed, offensive) ==
    IF offensive = <<>> THEN <<>>
    ELSE InsertByClaim(analyzed,
                       SortedByClaim(analyzed, SubSeq(offensive, 1, Len(offensive) - 1)),
                       offensive[Len(offensive)])

\* C10: generate_report_json returns a report for every collection, and the
\* report's top list is the selection made from the offensive comments
\* ordered with a missing severity (absent or None) counted as 0.
C10_ReportWithMissingSeverityAsZero ==
    pc # "generate_report_json" =>
        /\ raised = ""
        /\ report.built
        /\ report.top_5_varied =
              Top5Varied(analyzed_comments,
                         SortedByClaim(analyzed_comments,
                                       Offensive(analyzed_comments)))

\* The four fields analyze_comment_with_ai sets.
Marks(comment) ==
    <<comment.is_offensive, comment.offense_type, comment.explanation,
      comment.severity>>

\* A response that parses as the requested structured data: a JSON object
\* with the four fields.
IsRequestedObject(content) ==
    /\ content.form = "object"
    /\ content.obj.is_offensive # Absent
    /\ content.obj.offense_type # Absent
    /\ content.obj.explanation # Absent
    /\ content.obj.severity # SevAbsent

\* C2: a comment whose response is anything other than a JSON object with the
\* four fields is marked offensive, with offense_type "error", the fixed
\* explanation and severity 3 (and so not as an api_error).
C2_UnparseableResponseIsError ==
    \A k \in DOMAIN answers :
        (answers[k].kind = "choice" /\ ~IsRequestedObject(answers[k].content))
          => Marks(analyzed_comments[k]) =
                <<True, "error", "Error decoding AI analysis response.", 3>>

\* C3: a comment whose API call returned no choice is marked not offensive
\* with offense_type, explanation and severity all None.
C3_NoResponseLeavesFieldsNull ==
    \A k \in DOMAIN answers :
        answers[k].kind = "no_choices"
          => Marks(analyzed_comments[k]) = <<False, None, None, SevNone>>

\* C4: a comment whose API call raised is returned by analyze_comment_with_ai
\* (nothing propagates) marked offensive, with offense_type "api_error",
\* severity 4 and an explanation that contains the exception's message.
C4_ApiExceptionIsApiError ==
    \A k \in DOMAIN answers :
        answers[k].kind = "raise"
          => /\ k \in DOMAIN analyzed_comments
             /\ analyzed_comments[k].is_offensive = True
             /\ analyzed_comments[k].offense_type = "api_error"
             /\ analyzed_comments[k].severity = 4
             /\ Contains(analyzed_comments[k].explanation, answers[k].message)
             /\ raised # "" => pc = "crashed" /\ i > Len(comments.items)

C4_Witness ==
    /\ pc = "export_report"
    /\ \E k \in DOMAIN answers : answers[k].kind = "raise"

\* C5: every comment process_comments returns satisfies the AnalyzedComment
\* invariant: not offensive implies offense_type, explanation and severity
\* are None, and a severity that is not None lies in 1..5.
C5_AnalyzedCommentInvariant ==
    \A k \in DOMAIN analyzed_comments :
        /\ analyzed_comments[k].is_offensive = False
             => /\ analyzed_comments[k].offense_type = None
                /\ analyzed_comments[k].explanation = None
                /\ analyzed_comments[k].severity = SevNone
        /\ analyzed_comments[k].severity # SevNone
             => analyzed_comments[k].severity \in 1..5

RECURSIVE Sum(_)
Sum(s) == IF s = <<>> THEN 0 ELSE Head(s) + Sum(Tail(s))

\* C6: when process_comments has returned, every comment the pre-filter did
\* not flag in this run has caused exactly one request and every flagged one
\* none; without the pre-filter there are as many requests as comments.
C6_OneRequestPerUnflaggedComment ==
    pc = "export_report" =>
        /\ \A k \in DOMAIN requests :
              requests[k] = IF k \in flagged THEN 0 ELSE 1
        /\ ~args.filter => Sum(requests) = Len(comments.items)

ExportFailed == "Error exporting data" \in printed

SaveCalled ==
    \/ "Offensive comment report saved" \in printed
    \/ "Error saving JSON report" \in printed

\* C7: a write error of an exporter never leaves the exporter: after a failed
\* export_report the error is printed and main goes on to
\* generate_report_json and, with --report_json set, from its return to
\* save_report_json; a failed save_report_json is printed and main goes on.
C7_WriteErrorsDoNotEndTheRun ==
    /\ raised # "OSError"
    /\ ExportFailed =>
         /\ pc \in {"generate_report_json", "save_report_json",
                    "plot_offense_distribution", "done", "crashed"}
         /\ pc = "crashed" => raised = generate_report_raises(analyzed_comments)
         /\ pc \in {"save_report_json", "plot_offense_distribution", "done"}
              => report.built
         /\ (pc \in {"plot_offense_distribution", "done"} /\ args.report_json)
              => SaveCalled
    /\ "Error saving JSON report" \in printed
         => pc \in {"plot_offense_distribution", "done"}

C7_Witness ==
    /\ pc = "done"
    /\ ExportFailed
    /\ report.built
    /\ "Error saving JSON report" \in printed

\* A file that is missing, of an unsupported extension, or malformed: not
\* readable as CSV or JSON, or JSON that is neither a sequence of comment
\* records nor an object with a 'comments' sequence of them.
BadFile(f) ==
    \/ ~f.exists
    \/ f.ext \notin {"csv", "json"}
    \/ f.form = "garbage"
    \/ /\ f.ext = "json"
       /\ \/ f.form \in {"dict_other", "scalar"}
          \/ ~IsRecordList(f.value)

\* C8: for a missing, malformed or unsupported file load_comments prints an
\* error and returns an empty sequence, and main ends without a request, an
\* output file or an exception.
C8_BadFileLoadsNothing ==
    (BadFile(file) /\ pc # "load_comments") =>
        /\ comments = PyList(<<>>)
        /\ printed \cap {"Error: File not found", "Error loading file"} # {}
        /\ pc = "done"
        /\ raised = ""
        /\ requests = <<>>
        /\ written = {}

====
